---- MODULE Spec2Model ----
(***************************************************************************)
(* AAC Mount Finder: the recommendation engine of data.py and the section  *)
(* logic of app.py's display_mount_solutions.                              *)
(*                                                                         *)
(* Weights and capacities are SQLite REAL kilograms in the program; here   *)
(* they are integers in grams (2.6 kg = 2600), so that the comparisons of  *)
(* the decision tables against 2.59, 2.6, 2.79 ... are exact and weights   *)
(* strictly between two hundredths of a kilogram (2.595 kg) exist.         *)
(*                                                                         *)
(* Rows are records holding the columns the code reads: a mount row        *)
(* (id, name, manufacturer, weight_capacity, description, url) keeps id,   *)
(* manufacturer and weight_capacity; a clamp row keeps id and              *)
(* manufacturer.  Python's None is the value None below.                   *)
(***************************************************************************)
EXTENDS Integers, Sequences, FiniteSets, TLC

VARIABLES
    store,      \* the catalog: the tables of mounting_solutions.db
    openConns,  \* number of sqlite connections currently open
    call,       \* the last call made: its name and arguments
    result,     \* the value that call returned
    view        \* what display_mount_solutions rendered for that result

vars == <<store, openConns, call, result, view>>

None == [kind |-> "None"]

(***************************************************************************)
(* Bounds of the model.                                                    *)
(***************************************************************************)
\* the decision tables are evaluated for every weight 0..MaxWeight grams
MaxWeight == 3000
\* capacities in the catalog are 1..MaxCap units, device weights 1..MaxCap+1
MaxCap == 2

\* capacities and device weights of the catalogs explored are multiples of
\* 1.3 kg (1.3 kg and 2.6 kg are the weights of the documented scenarios)
Units(k) == k * 1300

(***************************************************************************)
(* MountLogic: the weight-banded decision tables.                          *)
(***************************************************************************)
\* the boundaries of an earlier revision: > 2.6 and > 2.8 where the table has >=
get_rehadapt_mount_id_strict(device_weight, left_hand_side) ==
    IF left_hand_side
    THEN IF device_weight > 2800 THEN 3
         ELSE IF 1700 <= device_weight /\ device_weight <= 2800 THEN 2
         ELSE 13
    ELSE IF device_weight > 2600 THEN 3
         ELSE IF 1600 <= device_weight /\ device_weight <= 2600 THEN 1
         ELSE IF 1100 <= device_weight /\ device_weight <= 1590 THEN 4
         ELSE 6

get_rehadapt_mount_id(device_weight, left_hand_side) ==
    IF left_hand_side
    THEN IF device_weight >= 2800 THEN 3
         ELSE IF 1700 <= device_weight /\ device_weight <= 2790 THEN 2
         ELSE 13
    ELSE IF device_weight >= 2600 THEN 3
         ELSE IF 1600 <= device_weight /\ device_weight <= 2590 THEN 1
         ELSE IF 1100 <= device_weight /\ device_weight <= 1590 THEN 4
         ELSE 6

\* a Daessy table that follows the left-hand boundary of the Rehadapt table
get_daessy_mount_id_sided(device_weight, left_hand_side) ==
    IF left_hand_side
    THEN IF device_weight >= 2800 THEN 7 ELSE 10
    ELSE IF device_weight >= 2600 THEN 7 ELSE 10

get_daessy_mount_id(device_weight, left_hand_side) ==
    IF device_weight >= 2600 THEN 7 ELSE 10

get_mount_recommendation_note(left_hand_side) ==
    IF left_hand_side
    THEN "Left-hand side mounting detected - recommending sturdy mounts with rotation lock to prevent unwanted movement."
    ELSE "Standard right-hand side mounting - flexible positioning options available."

(***************************************************************************)
(* The catalog store: what the SQL statements of data.py return.           *)
(***************************************************************************)
\* rows of a table in rowid order, or ordered by a key column; SQLite scans a
\* table by rowid and its sorter keeps that order among equal keys
RECURSIVE SortBy(_, _)
SortBy(rows, key) ==
    IF rows = {} THEN <<>>
    ELSE LET first == CHOOSE r \in rows :
                 \A s \in rows : \/ key[r] < key[s]
                                 \/ key[r] = key[s] /\ r.id <= s.id
         IN <<first>> \o SortBy(rows \ {first}, key)

fetchall(rows) == SortBy(rows, [r \in rows |-> r.id])

fetchone(rows) == IF rows = {} THEN None ELSE fetchall(rows)[1]

\* SELECT ... FROM wheelchairs WHERE id = ?
findWheelchair(db, wheelchair_id) ==
    fetchone({r \in db.wheelchairs : r.id = wheelchair_id})

\* SELECT weight FROM aac_devices WHERE id = ?
findDevice(db, aac_device_id) ==
    fetchone({r \in db.aac_devices : r.id = aac_device_id})

\* safe_sql_in_clause: the parameters bound to "id IN (?,...,?)"
safe_sql_in_clause(ids) == IF ids = <<>> THEN <<>> ELSE ids

Range(s) == {s[i] : i \in DOMAIN s}

\* SELECT * FROM clamps WHERE id IN (...)
findClampsByIds(db, ids) ==
    fetchall({r \in db.clamps : r.id \in Range(safe_sql_in_clause(ids))})

\* SELECT * FROM mounts WHERE id IN (...)
findMountsByIds(db, ids) ==
    fetchall({r \in db.mounts : r.id \in Range(safe_sql_in_clause(ids))})

\* the same query without its ORDER BY clause: rows come in rowid order
findMountsByWeightAtLeast_unordered(db, device_weight) ==
    fetchall({r \in db.mounts : r.weight_capacity >= device_weight})

\* SELECT * FROM mounts WHERE weight_capacity >= ? ORDER BY weight_capacity ASC
findMountsByWeightAtLeast(db, device_weight) ==
    LET rows == {r \in db.mounts : r.weight_capacity >= device_weight}
    IN SortBy(rows, [r \in rows |-> r.weight_capacity])

\* the first row of adaptors, whatever its id
findAdapterRing_first(db) == fetchone(db.adaptors)

\* SELECT * FROM adaptors WHERE id = 1
findAdapterRing(db) == fetchone({r \in db.adaptors : r.id = 1})

(***************************************************************************)
(* The frame_clamps column: a comma-separated text.  A text is modelled by *)
(* the fields text.split(',') yields (at least one, '' for an empty text); *)
(* a NULL column is the value None.                                        *)
(***************************************************************************)
\* str.strip() on the fields that occur
strip(field) ==
    CASE field = " 2" -> "2"
      [] field = " 3" -> "3"
      [] OTHER -> field

\* the texts int() accepts, and their values
IntLiterals == {"1", "2", "3"}

int(text) ==
    CASE text = "1" -> 1
      [] text = "2" -> 2
      [] text = "3" -> 3

\* int(id.strip()) for id in wheelchair[1].split(','): raises on NULL
\* (AttributeError) and on a field that is no integer (ValueError)
frame_clamp_ids_raises(frame_clamps) ==
    \/ frame_clamps = None
    \/ \E i \in DOMAIN frame_clamps.fields :
           strip(frame_clamps.fields[i]) \notin IntLiterals

frame_clamp_ids(frame_clamps) ==
    [i \in DOMAIN frame_clamps.fields |-> int(strip(frame_clamps.fields[i]))]

(***************************************************************************)
(* get_recommendations                                                    *)
(***************************************************************************)
Error(message) == [kind |-> "error", message |-> message]

SeqIds(rows) == {rows[i].id : i \in DOMAIN rows}

\* the body of the with-block once both records resolved
recommendation_bundle(db, wheelchair, aac_device, left_hand_side) ==
    LET ids == frame_clamp_ids(wheelchair.frame_clamps)
        device_weight == aac_device.weight
        frame_clamps == findClampsByIds(db, ids)
        all_mounts == findMountsByWeightAtLeast(db, device_weight)
        rehadapt_mount_id == get_rehadapt_mount_id(device_weight, left_hand_side)
        daessy_mount_id == get_daessy_mount_id(device_weight, left_hand_side)
        primary_mount_ids == <<rehadapt_mount_id, daessy_mount_id>>
        primary_mounts == findMountsByIds(db, primary_mount_ids)
        primary_mount_dict == SeqIds(primary_mounts)
        other_mounts == SelectSeq(all_mounts, LAMBDA m : m.id \notin primary_mount_dict)
    IN [kind |-> "bundle",
        frame_clamps |-> frame_clamps,
        mounts |-> primary_mounts \o other_mounts,
        adapter_ring |-> findAdapterRing(db),
        mount_location |-> wheelchair.mount_location,
        device_weight |-> device_weight,
        primary_mount_ids |-> primary_mount_ids,
        left_hand_side |-> left_hand_side,
        mount_note |-> get_mount_recommendation_note(left_hand_side)]

\* "not wheelchair and not aac_device" in place of "or": a call with one
\* unresolved id runs on and fails on the missing row
get_recommendations_and(db, wheelchair_id, aac_device_id, uses_eyegaze, left_hand_side) ==
    IF db.status # "ok"
    THEN Error("Failed to retrieve recommendations due to a database error.")
    ELSE LET wheelchair == findWheelchair(db, wheelchair_id)
             aac_device == findDevice(db, aac_device_id)
         IN IF wheelchair = None /\ aac_device = None
            THEN Error("Invalid wheelchair or AAC device selection.")
            ELSE IF wheelchair = None \/ aac_device = None
            THEN Error("An unexpected error occurred while getting recommendations.")
            ELSE IF frame_clamp_ids_raises(wheelchair.frame_clamps)
            THEN Error("An unexpected error occurred while getting recommendations.")
            ELSE recommendation_bundle(db, wheelchair, aac_device, left_hand_side)

\* an exception that leaves a block
Raised(exception) == [kind |-> "raised", exception |-> exception]

\* the try block of get_recommendations: the value it returns or the
\* exception that leaves it.  A store that cannot be opened or queried raises
\* sqlite3.Error; a NULL frame_clamps has no split (AttributeError); a field
\* that is no integer fails in int() (ValueError)
recommendations_try_block(db, wheelchair_id, aac_device_id, left_hand_side) ==
    IF db.status # "ok"
    THEN Raised("sqlite3.Error")
    ELSE LET wheelchair == findWheelchair(db, wheelchair_id)
             aac_device == findDevice(db, aac_device_id)
         IN IF wheelchair = None \/ aac_device = None
            THEN Error("Invalid wheelchair or AAC device selection.")
            ELSE IF wheelchair.frame_clamps = None
            THEN Raised("AttributeError")
            ELSE IF frame_clamp_ids_raises(wheelchair.frame_clamps)
            THEN Raised("ValueError")
            ELSE recommendation_bundle(db, wheelchair, aac_device, left_hand_side)

\* an engine that keeps the mounting side of the previous call (state kept
\* between calls) and uses it in place of the argument
get_recommendations_sticky_side(db, wheelchair_id, aac_device_id, uses_eyegaze, left_hand_side) ==
    LET side == IF call # None /\ call.op = "get_recommendations"
                THEN call.left_hand_side
                ELSE left_hand_side
        outcome == recommendations_try_block(db, wheelchair_id, aac_device_id, side)
    IN IF outcome.kind = "raised"
       THEN IF outcome.exception = "sqlite3.Error"
            THEN Error("Failed to retrieve recommendations due to a database error.")
            ELSE Error("An unexpected error occurred while getting recommendations.")
       ELSE outcome

\* get_recommendations with "except sqlite3.Error" alone: any other exception
\* leaves the function
get_recommendations_no_catch_all(db, wheelchair_id, aac_device_id, uses_eyegaze, left_hand_side) ==
    LET outcome == recommendations_try_block(db, wheelchair_id, aac_device_id,
                                             left_hand_side)
    IN IF outcome.kind = "raised" /\ outcome.exception = "sqlite3.Error"
       THEN Error("Failed to retrieve recommendations due to a database error.")
       ELSE outcome

get_recommendations(db, wheelchair_id, aac_device_id, uses_eyegaze, left_hand_side) ==
    LET outcome == recommendations_try_block(db, wheelchair_id, aac_device_id,
                                             left_hand_side)
    IN IF outcome.kind = "raised"
       THEN IF outcome.exception = "sqlite3.Error"
            THEN Error("Failed to retrieve recommendations due to a database error.")
            ELSE Error("An unexpected error occurred while getting recommendations.")
       ELSE outcome

(***************************************************************************)
(* Lookups of the selection boxes                                          *)
(***************************************************************************)
Dict(items) == [kind |-> "dict", items |-> items]

\* get_all_wheelchairs: {model: id}, or {} when the store fails
get_all_wheelchairs(db) ==
    IF db.status # "ok"
    THEN Dict({})
    ELSE Dict({<<r.model, r.id>> : r \in db.wheelchairs})

(***************************************************************************)
(* Accessory finders                                                       *)
(***************************************************************************)
\* BINARY collation of the manufacturer, name and style texts that occur
TextRank(text) ==
    CASE text = "A" -> 0
      [] text = "B" -> 1
      [] text = "Clamp-on" -> 0
      [] text = "Daessy" -> 0
      [] text = "Rehadapt" -> 1
      [] text = "Weighted" -> 1
      [] OTHER -> 2

\* the floorstands query with "weight_capacity > ?"
findFloorstandsByWeight_strict(db, device_weight) ==
    LET rows == {r \in db.floorstands : r.weight_capacity > device_weight}
    IN SortBy(rows, [r \in rows |-> 3 * TextRank(r.manufacturer) + TextRank(r.name)])

\* SELECT ... FROM floorstands WHERE weight_capacity >= ? ORDER BY manufacturer, name
findFloorstandsByWeight(db, device_weight) ==
    LET rows == {r \in db.floorstands : r.weight_capacity >= device_weight}
    IN SortBy(rows, [r \in rows |-> 3 * TextRank(r.manufacturer) + TextRank(r.name)])

\* SELECT ... FROM tablemounts WHERE max_weight >= ? ORDER BY manufacturer, style, name
findTablemountsByWeight(db, device_weight) ==
    LET rows == {r \in db.tablemounts : r.max_weight >= device_weight}
    IN SortBy(rows, [r \in rows |-> 9 * TextRank(r.manufacturer)
                                     + 3 * TextRank(r.style) + TextRank(r.name)])

List(rows) == [kind |-> "list", rows |-> rows]

get_floorstands_for_device(db, aac_device_id) ==
    IF db.status # "ok"
    THEN Error("Failed to retrieve floorstands due to a database error.")
    ELSE LET device_result == findDevice(db, aac_device_id)
         IN IF device_result = None
            THEN Error("Invalid AAC device selection.")
            ELSE List(findFloorstandsByWeight(db, device_result.weight))

get_tablemounts_for_device(db, aac_device_id) ==
    IF db.status # "ok"
    THEN Error("Failed to retrieve table mounts due to a database error.")
    ELSE LET device_result == findDevice(db, aac_device_id)
         IN IF device_result = None
            THEN Error("Invalid AAC device selection.")
            ELSE List(findTablemountsByWeight(db, device_result.weight))

(***************************************************************************)
(* get_db_connection: the connection a call leaves open when it returns.   *)
(***************************************************************************)
\* sqlite3.connect: conn stays None when the database cannot be opened
connect(db) == db.status # "unreadable"

\* a context manager that closes nothing when the block is left
closed_on_exit_never(conn) == FALSE

\* finally: if conn: conn.close()
closed_on_exit(conn) == conn

connections_left_open(db) ==
    LET conn == connect(db)
    IN (IF conn THEN 1 ELSE 0) - (IF closed_on_exit(conn) THEN 1 ELSE 0)

(***************************************************************************)
(* display_mount_solutions: the sections it renders for a bundle.          *)
(***************************************************************************)
\* str.lower() on the manufacturer texts that occur
lower(text) ==
    CASE text = "Rehadapt" -> "rehadapt"
      [] text = "Daessy" -> "daessy"
      [] OTHER -> text

\* next((m for m in mounts if m[0] == mount_id), default)
next_with_id(mounts, mount_id, default) ==
    IF \E i \in DOMAIN mounts : mounts[i].id = mount_id
    THEN mounts[CHOOSE i \in DOMAIN mounts :
                    /\ mounts[i].id = mount_id
                    /\ \A j \in 1..(i - 1) : mounts[j].id # mount_id]
    ELSE default

NoSection == [shown |-> FALSE, clamp |-> None, mount |-> None, warning |-> FALSE]

\* a "Suggested ... Solution" section: the first clamp, then the primary
\* mount or the "No suitable ... mount found" warning
solution_section(clamps, mounts, primary_id) ==
    IF clamps # <<>> /\ mounts # <<>>
    THEN LET primary_mount ==
                 next_with_id(mounts, primary_id,
                              IF mounts # <<>> THEN mounts[1] ELSE None)
         IN [shown |-> TRUE, clamp |-> clamps[1],
             mount |-> primary_mount, warning |-> primary_mount = None]
    ELSE NoSection

\* the "Cross-Manufacturer Combinations" section
cross_section(daessy_clamps, rehadapt_mounts, adapter_ring, primary_rehadapt_id) ==
    IF daessy_clamps # <<>> /\ rehadapt_mounts # <<>> /\ adapter_ring # None
    THEN LET suitable_rehadapt_mount ==
                 next_with_id(rehadapt_mounts, primary_rehadapt_id, None)
         IN [shown |-> TRUE,
             combinations |->
                 IF suitable_rehadapt_mount # None
                 THEN [i \in DOMAIN daessy_clamps |->
                          [clamp |-> daessy_clamps[i],
                           mount |-> suitable_rehadapt_mount,
                           adapter |-> adapter_ring]]
                 ELSE <<>>]
    ELSE [shown |-> FALSE, combinations |-> <<>>]

\* the "Other Compatible Mounts" section
other_section(rehadapt_mounts, daessy_mounts, primary_rehadapt_id, primary_daessy_id) ==
    LET other_rehadapt_mounts ==
            SelectSeq(rehadapt_mounts, LAMBDA m : m.id # primary_rehadapt_id)
        other_daessy_mounts ==
            SelectSeq(daessy_mounts, LAMBDA m : m.id # primary_daessy_id)
    IN [shown |-> other_rehadapt_mounts # <<>> \/ other_daessy_mounts # <<>>,
        rehadapt |-> other_rehadapt_mounts,
        daessy |-> other_daessy_mounts]

\* the order in which display_mount_solutions renders its sections: the
\* blocks of the function run top to bottom for every bundle
section_order(recommendations) == <<"rehadapt", "daessy", "cross", "other">>

display_mount_solutions(recommendations) ==
    LET rehadapt_clamps == SelectSeq(recommendations.frame_clamps,
                                     LAMBDA c : lower(c.manufacturer) = "rehadapt")
        rehadapt_mounts == SelectSeq(recommendations.mounts,
                                     LAMBDA m : lower(m.manufacturer) = "rehadapt")
        daessy_clamps == SelectSeq(recommendations.frame_clamps,
                                   LAMBDA c : lower(c.manufacturer) = "daessy")
        daessy_mounts == SelectSeq(recommendations.mounts,
                                   LAMBDA m : lower(m.manufacturer) = "daessy")
        device_weight == recommendations.device_weight
        primary_rehadapt_id ==
            get_rehadapt_mount_id(device_weight, recommendations.left_hand_side)
        primary_daessy_id ==
            get_daessy_mount_id(device_weight, recommendations.left_hand_side)
    IN [kind |-> "page",
        order |-> section_order(recommendations),
        rehadapt |-> solution_section(rehadapt_clamps, rehadapt_mounts, primary_rehadapt_id),
        daessy |-> solution_section(daessy_clamps, daessy_mounts, primary_daessy_id),
        cross |-> cross_section(daessy_clamps, rehadapt_mounts,
                                recommendations.adapter_ring, primary_rehadapt_id),
        other |-> other_section(rehadapt_mounts, daessy_mounts,
                                primary_rehadapt_id, primary_daessy_id)]

(***************************************************************************)
(* The catalogs explored.                                                  *)
(***************************************************************************)
\* ids the decision tables name: 3 (M3D Plus HD) and 4 are Rehadapt mounts,
\* 7 and 10 Daessy mounts; the ids 1, 2, 6 and 13 name no mount of these
\* catalogs
MountIds == {3, 4, 7, 10}

MountManufacturer(id) == IF id \in {3, 4} THEN "Rehadapt" ELSE "Daessy"

Capacities == {Units(k) : k \in 1..MaxCap}

DeviceWeights == {Units(k) : k \in 1..(MaxCap + 1)}

\* every mounts table over MountIds: each id absent, or present with any
\* capacity
MountTables ==
    LET choices == [MountIds -> {0} \cup Capacities]
    IN {{[id |-> i, manufacturer |-> MountManufacturer(i),
          weight_capacity |-> c[i]] : i \in {j \in MountIds : c[j] # 0}} :
            c \in choices}

\* frame_clamps texts "1", "1, 2" and " 2"
FrameClampTexts == {<<"1">>, <<"1", " 2">>, <<" 2">>}

Clamps == {[id |-> 1, manufacturer |-> "Rehadapt"],
           [id |-> 2, manufacturer |-> "Daessy"]}

Floorstands ==
    {[id |-> 1, name |-> "B", manufacturer |-> "Rehadapt", weight_capacity |-> Units(1)],
     [id |-> 2, name |-> "A", manufacturer |-> "Rehadapt", weight_capacity |-> Units(2)],
     [id |-> 3, name |-> "A", manufacturer |-> "Daessy", weight_capacity |-> Units(2)]}

Tablemounts ==
    {[id |-> 1, name |-> "A", manufacturer |-> "Rehadapt", style |-> "Weighted",
      max_weight |-> Units(1)],
     [id |-> 2, name |-> "A", manufacturer |-> "Rehadapt", style |-> "Clamp-on",
      max_weight |-> Units(2)]}

Catalog(frame_clamps, weight, mounts) ==
    [status |-> "ok",
     wheelchairs |-> {[id |-> 1, model |-> "Chair",
                       frame_clamps |-> frame_clamps,
                       mount_location |-> "Seat rail"]},
     aac_devices |-> {[id |-> 1, weight |-> weight]},
     clamps |-> Clamps,
     mounts |-> mounts,
     adaptors |-> {[id |-> 1]},
     floorstands |-> Floorstands,
     tablemounts |-> Tablemounts]

\* the ids a caller passes: 1 resolves, 2 resolves to no record
WheelchairIds == {1, 2}
DeviceIds == {1, 2}

(***************************************************************************)
(* Initial states and actions.                                             *)
(***************************************************************************)
Init ==
    /\ store \in {Catalog([fields |-> f], w, m) :
                     f \in FrameClampTexts, w \in DeviceWeights, m \in MountTables}
    /\ openConns = 0
    /\ call = None
    /\ result = None
    /\ view = None

GetRecommendations ==
    \E wheelchair_id \in WheelchairIds, aac_device_id \in DeviceIds,
       uses_eyegaze \in BOOLEAN, left_hand_side \in BOOLEAN :
        /\ call' = [op |-> "get_recommendations",
                    wheelchair_id |-> wheelchair_id,
                    aac_device_id |-> aac_device_id,
                    uses_eyegaze |-> uses_eyegaze,
                    left_hand_side |-> left_hand_side]
        /\ result' = get_recommendations(store, wheelchair_id, aac_device_id,
                                         uses_eyegaze, left_hand_side)
        /\ openConns' = openConns + connections_left_open(store)
        /\ view' = None
        /\ UNCHANGED store

GetFloorstandsForDevice ==
    \E aac_device_id \in DeviceIds :
        /\ call' = [op |-> "get_floorstands_for_device",
                    aac_device_id |-> aac_device_id]
        /\ result' = get_floorstands_for_device(store, aac_device_id)
        /\ openConns' = openConns + connections_left_open(store)
        /\ view' = None
        /\ UNCHANGED store

GetTablemountsForDevice ==
    \E aac_device_id \in DeviceIds :
        /\ call' = [op |-> "get_tablemounts_for_device",
                    aac_device_id |-> aac_device_id]
        /\ result' = get_tablemounts_for_device(store, aac_device_id)
        /\ openConns' = openConns + connections_left_open(store)
        /\ view' = None
        /\ UNCHANGED store

GetAllWheelchairs ==
    /\ call' = [op |-> "get_all_wheelchairs"]
    /\ result' = get_all_wheelchairs(store)
    /\ openConns' = openConns + connections_left_open(store)
    /\ view' = None
    /\ UNCHANGED store

\* show_wheelchair_mounts renders a result that is no error string
DisplayMountSolutions ==
    /\ call # None
    /\ call.op = "get_recommendations"
    /\ result.kind = "bundle"
    /\ view = None
    /\ view' = display_mount_solutions(result)
    /\ UNCHANGED <<store, openConns, call, result>>

Next ==
    \/ GetRecommendations
    \/ GetFloorstandsForDevice
    \/ GetTablemountsForDevice
    \/ GetAllWheelchairs
    \/ DisplayMountSolutions

Spec == Init /\ [][Next]_vars

(***************************************************************************)
(* Stores in any condition: a database that cannot be opened ("unreadable")*)
(* or queried ("corrupt"), frame_clamps texts that are NULL, empty, no     *)
(* integer list or name a clamp that does not exist, and adaptors tables   *)
(* with and without the adapter ring of id 1.                              *)
(***************************************************************************)
Statuses == {"ok", "unreadable", "corrupt"}

\* "", "x", "1," and the texts "3" and "1, 3" that name the missing clamp 3
OddFrameClampTexts == {<<"">>, <<"x">>, <<"1", "">>, <<"3">>, <<"1", " 3">>}

FrameClampColumns ==
    {None} \cup {[fields |-> f] : f \in FrameClampTexts \cup OddFrameClampTexts}

AdaptorTables == {{}, {[id |-> 1]}, {[id |-> 2]}, {[id |-> 1], [id |-> 2]}}

\* no mount, or all four mounts with one capacity
UniformMountTables ==
    {{}} \cup {{[id |-> i, manufacturer |-> MountManufacturer(i),
                 weight_capacity |-> c] : i \in MountIds} : c \in Capacities}

InitStore ==
    /\ store \in {[Catalog(f, w, m) EXCEPT !.status = s, !.adaptors = a] :
                     f \in FrameClampColumns, w \in DeviceWeights,
                     m \in UniformMountTables, s \in Statuses,
                     a \in AdaptorTables}
    /\ openConns = 0
    /\ call = None
    /\ result = None
    /\ view = None

SpecStore == InitStore /\ [][Next]_vars

(***************************************************************************)
(* Stores whose floorstands and tablemounts tables vary: each accessory is *)
(* absent or has any capacity.                                             *)
(***************************************************************************)
FloorstandTables ==
    LET choices == [Floorstands -> {0} \cup Capacities]
    IN {{[r EXCEPT !.weight_capacity = c[r]] : r \in {x \in Floorstands : c[x] # 0}} :
            c \in choices}

TablemountTables ==
    LET choices == [Tablemounts -> {0} \cup Capacities]
    IN {{[r EXCEPT !.max_weight = c[r]] : r \in {x \in Tablemounts : c[x] # 0}} :
            c \in choices}

InitAccessories ==
    /\ store \in {[Catalog([fields |-> <<"1", " 2">>], w, {})
                        EXCEPT !.floorstands = f, !.tablemounts = t] :
                     w \in DeviceWeights, f \in FloorstandTables,
                     t \in TablemountTables}
    /\ openConns = 0
    /\ call = None
    /\ result = None
    /\ view = None

SpecAccessories == InitAccessories /\ [][Next]_vars

(***************************************************************************)
(* The decision tables alone, called with the weight of a device that may  *)
(* weigh any number of grams 0..MaxWeight.                                 *)
(***************************************************************************)
InitTable ==
    /\ store \in {Catalog([fields |-> <<"1", " 2">>], w, {}) : w \in 0..MaxWeight}
    /\ openConns = 0
    /\ call = None
    /\ result = None
    /\ view = None

GetRehadaptMountId ==
    \E device \in store.aac_devices, left_hand_side \in BOOLEAN :
        /\ call' = [op |-> "get_rehadapt_mount_id",
                    device_weight |-> device.weight,
                    left_hand_side |-> left_hand_side]
        /\ result' = [kind |-> "id",
                      id |-> get_rehadapt_mount_id(device.weight, left_hand_side)]
        /\ UNCHANGED <<store, openConns, view>>

GetDaessyMountId ==
    \E device \in store.aac_devices, left_hand_side \in BOOLEAN :
        /\ call' = [op |-> "get_daessy_mount_id",
                    device_weight |-> device.weight,
                    left_hand_side |-> left_hand_side]
        /\ result' = [kind |-> "id",
                      id |-> get_daessy_mount_id(device.weight, left_hand_side)]
        /\ UNCHANGED <<store, openConns, view>>

NextTable == GetRehadaptMountId \/ GetDaessyMountId

SpecTable == InitTable /\ [][NextTable]_vars

(***************************************************************************)
(* Properties of the decision tables (checked under SpecTable).            *)
(***************************************************************************)
Called(op) == call # None /\ call.op = op

\* C4: right-hand, every weight w >= 0 at any resolution gets 3 if
\* w >= 2.6, 1 if 1.6 <= w < 2.6, 4 if 1.1 <= w < 1.6 and 6 if w < 1.1
\* (no gap between the bands).
C4_RightHandBandsHaveNoGap ==
    (Called("get_rehadapt_mount_id") /\ ~call.left_hand_side) =>
        result.id = IF call.device_weight >= 2600 THEN 3
                    ELSE IF call.device_weight >= 1600 THEN 1
                    ELSE IF call.device_weight >= 1100 THEN 4
                    ELSE 6

\* C5: left-hand, every weight w >= 0 at any resolution gets 3 if
\* w >= 2.8, 2 if 1.7 <= w < 2.8 and 13 if w < 1.7 (no gap between the bands).
C5_LeftHandBandsHaveNoGap ==
    (Called("get_rehadapt_mount_id") /\ call.left_hand_side) =>
        result.id = IF call.device_weight >= 2800 THEN 3
                    ELSE IF call.device_weight >= 1700 THEN 2
                    ELSE 13

\* the Rehadapt ids the documentation gives at its boundary weights
DocumentedRightHand ==
    {<<1100, 4>>, <<1300, 4>>, <<1590, 4>>, <<1600, 1>>, <<2590, 1>>, <<2600, 3>>}

DocumentedLeftHand == {<<1700, 2>>, <<1800, 2>>, <<2790, 2>>, <<2800, 3>>}

\* C6: at the documented boundary weights the Rehadapt primary id is
\* right-hand 1.1 -> 4, 1.3 -> 4, 1.59 -> 4, 1.6 -> 1, 2.59 -> 1, 2.6 -> 3 and
\* left-hand 1.7 -> 2, 1.8 -> 2, 2.79 -> 2, 2.8 -> 3.
C6_RehadaptBoundaryValues ==
    Called("get_rehadapt_mount_id") =>
        \A d \in (IF call.left_hand_side THEN DocumentedLeftHand
                                         ELSE DocumentedRightHand) :
            call.device_weight = d[1] => result.id = d[2]

\* scenario A is evaluated: 2.6 kg right-hand gives mount 3
C6_Witness ==
    /\ Called("get_rehadapt_mount_id")
    /\ ~call.left_hand_side
    /\ call.device_weight = 2600
    /\ result.id = 3

\* C7: the Daessy id is 7 from 2.6 kg on and 10 below, whatever the side, so
\* both sides get the same id for the same weight.
C7_DaessyTwoBandsSideIndependent ==
    Called("get_daessy_mount_id") =>
        /\ result.id = IF call.device_weight >= 2600 THEN 7 ELSE 10
        /\ get_daessy_mount_id(call.device_weight, TRUE)
               = get_daessy_mount_id(call.device_weight, FALSE)

\* a left-hand call between 2.6 kg and 2.8 kg, where the Rehadapt table differs
\* by side, gives Daessy mount 7
C7_Witness ==
    /\ Called("get_daessy_mount_id")
    /\ call.left_hand_side
    /\ call.device_weight = 2700
    /\ result.id = 7

(***************************************************************************)
(* Properties of get_recommendations and of the rendered page (checked     *)
(* under Spec).                                                            *)
(***************************************************************************)
ReturnedBundle == Called("get_recommendations") /\ result.kind = "bundle"

Rendered == view # None

ManufacturerKeys == {"rehadapt", "daessy"}

\* the compatible set of a manufacturer: its mounts that carry the weight
Compatible(db, manufacturer, device_weight) ==
    {m \in db.mounts : /\ lower(m.manufacturer) = manufacturer
                       /\ m.weight_capacity >= device_weight}

\* the compatible set as a list, ascending by capacity
CompatibleList(db, manufacturer, device_weight) ==
    LET rows == Compatible(db, manufacturer, device_weight)
    IN SortBy(rows, [r \in rows |-> r.weight_capacity])

DecisionId(manufacturer, device_weight, left_hand_side) ==
    IF manufacturer = "rehadapt"
    THEN get_rehadapt_mount_id(device_weight, left_hand_side)
    ELSE get_daessy_mount_id(device_weight, left_hand_side)

SectionOf(manufacturer) ==
    IF manufacturer = "rehadapt" THEN view.rehadapt ELSE view.daessy

Ascending(mounts) ==
    \A i, j \in DOMAIN mounts :
        i < j => mounts[i].weight_capacity <= mounts[j].weight_capacity

\* C1: every mount in the 'mounts' list of a returned bundle, the primary
\* mounts at its front included, has weight_capacity >= the device weight.
C1_EveryBundledMountCarriesTheDevice ==
    ReturnedBundle =>
        \A i \in DOMAIN result.mounts :
            result.mounts[i].weight_capacity >= result.device_weight

\* C2: the mount a manufacturer's solution section presents is never below
\* the device weight, and when the manufacturer's compatible set is not empty
\* it is the decision-table mount if that is compatible and the first mount
\* of the compatible list (ascending by capacity) otherwise.
C2_PrimaryComesFromTheCompatibleSet ==
    Rendered =>
        \A manufacturer \in ManufacturerKeys :
            LET section == SectionOf(manufacturer)
                compatible == CompatibleList(store, manufacturer, result.device_weight)
                id == DecisionId(manufacturer, result.device_weight,
                                 result.left_hand_side)
            IN section.shown =>
                /\ section.mount # None =>
                       section.mount.weight_capacity >= result.device_weight
                /\ compatible # <<>> =>
                       section.mount = next_with_id(compatible, id, compatible[1])

\* C3: per manufacturer the bundle's primary mounts (ids among
\* primary_mount_ids) and other mounts share no id, no mount is listed twice,
\* and together they are exactly the manufacturer's compatible set.
C3_PartitionIsDisjointAndExhaustive ==
    ReturnedBundle =>
        \A manufacturer \in ManufacturerKeys :
            LET mine == SelectSeq(result.mounts,
                                  LAMBDA m : lower(m.manufacturer) = manufacturer)
                primary == {m \in Range(mine) : m.id \in Range(result.primary_mount_ids)}
                other == {m \in Range(mine) : m.id \notin Range(result.primary_mount_ids)}
            IN /\ {m.id : m \in primary} \cap {m.id : m \in other} = {}
               /\ Cardinality(SeqIds(mine)) = Len(mine)
               /\ primary \cup other
                      = Compatible(store, manufacturer, result.device_weight)

\* C8 as claimed: the 'mounts' list of a returned bundle is sorted ascending
\* by weight_capacity.
C8_BundledMountsAscending ==
    ReturnedBundle => Ascending(result.mounts)

OtherMounts(bundle) ==
    SelectSeq(bundle.mounts, LAMBDA m : m.id \notin Range(bundle.primary_mount_ids))

\* C8 as amended: the mounts of a returned bundle that follow the primary
\* mounts (those whose id is not among primary_mount_ids) are sorted ascending
\* by weight_capacity; the primary mounts stand at the front of the list
\* whatever their capacity.
C8_OtherMountsAscending ==
    ReturnedBundle =>
        /\ Ascending(OtherMounts(result))
        /\ \A i, j \in DOMAIN result.mounts :
               (/\ i < j
                /\ result.mounts[j].id \in Range(result.primary_mount_ids))
                   => result.mounts[i].id \in Range(result.primary_mount_ids)

\* a bundle whose other mounts have two capacities, behind a primary mount of
\* a larger capacity than the mount that follows it
C8_Witness ==
    /\ ReturnedBundle
    /\ \E i, j \in DOMAIN OtherMounts(result) :
           OtherMounts(result)[i].weight_capacity
               < OtherMounts(result)[j].weight_capacity
    /\ ~Ascending(result.mounts)

Unresolved(db, c) ==
    \/ findWheelchair(db, c.wheelchair_id) = None
    \/ findDevice(db, c.aac_device_id) = None

\* C9: a get_recommendations call whose wheelchair id or device id resolves
\* to no record returns the invalid-selection error value, no bundle, and
\* leaves the store as it was.
C9_UnresolvedSelectionIsRejected ==
    [][(/\ call'.op = "get_recommendations"
        /\ call' # call
        /\ store.status = "ok"
        /\ Unresolved(store, call'))
           => /\ result' = Error("Invalid wheelchair or AAC device selection.")
              /\ view' = None
              /\ store' = store]_vars

\* a call with a wheelchair that resolves and a device that does not
C9_Witness ==
    /\ Called("get_recommendations")
    /\ call.wheelchair_id = 1
    /\ call.aac_device_id = 2
    /\ result.kind = "error"

\* C10: when the wheelchair has a clamp of a manufacturer and none of that
\* manufacturer's mounts carries the device, the manufacturer's section is
\* rendered with the 'no suitable mount' warning and no mount; the other
\* manufacturer's section is what its own clamps and mounts give.
C10_NoSuitableMountIsReported ==
    Rendered =>
        \A manufacturer \in ManufacturerKeys :
            LET section == SectionOf(manufacturer)
                clamps == SelectSeq(result.frame_clamps,
                                    LAMBDA c : lower(c.manufacturer) = manufacturer)
                mounts == SelectSeq(result.mounts,
                                    LAMBDA m : lower(m.manufacturer) = manufacturer)
                id == DecisionId(manufacturer, result.device_weight,
                                 result.left_hand_side)
            IN IF clamps # <<>>
                  /\ Compatible(store, manufacturer, result.device_weight) = {}
               THEN section.shown /\ section.warning /\ section.mount = None
               ELSE section = solution_section(clamps, mounts, id)

ClampsOf(manufacturer) ==
    SelectSeq(result.frame_clamps, LAMBDA c : lower(c.manufacturer) = manufacturer)

\* C11: a cross-manufacturer combination is offered exactly when the bundle
\* holds a Daessy clamp and the Rehadapt mount whose id the decision table
\* gives, and the cross-manufacturer section is never rendered without a
\* combination in it.
C11_CrossCombinationIffClampAndPrimary ==
    Rendered =>
        LET id == DecisionId("rehadapt", result.device_weight, result.left_hand_side)
            primary_in_bundle ==
                \E i \in DOMAIN result.mounts :
                    /\ result.mounts[i].id = id
                    /\ lower(result.mounts[i].manufacturer) = "rehadapt"
        IN /\ view.cross.combinations # <<>>
                  <=> (ClampsOf("daessy") # <<>> /\ primary_in_bundle)
           /\ view.cross.shown => view.cross.combinations # <<>>

Position(seq, x) == CHOOSE i \in DOMAIN seq : seq[i] = x

\* C12: with uses_eyegaze the page presents the Daessy section before the
\* Rehadapt section, and the clamps and mounts of the bundle are those of the
\* same call without uses_eyegaze.
C12_EyegazePutsDaessyFirst ==
    (Rendered /\ call.uses_eyegaze) =>
        /\ Position(view.order, "daessy") < Position(view.order, "rehadapt")
        /\ LET plain == get_recommendations(store, call.wheelchair_id,
                                            call.aac_device_id, FALSE,
                                            call.left_hand_side)
           IN /\ Range(result.frame_clamps) = Range(plain.frame_clamps)
              /\ Range(result.mounts) = Range(plain.mounts)

\* C19: the mount a manufacturer's solution section shows is not listed
\* again under "Other Compatible Mounts", also when the section fell back to
\* the first mount of the manufacturer's list.
C19_SolutionMountNotRepeatedAmongOthers ==
    Rendered =>
        \A manufacturer \in ManufacturerKeys :
            LET section == SectionOf(manufacturer)
                others == IF manufacturer = "rehadapt" THEN view.other.rehadapt
                                                       ELSE view.other.daessy
            IN (section.shown /\ section.mount # None)
                   => section.mount.id \notin SeqIds(others)

(***************************************************************************)
(* Properties checked under SpecStore.                                     *)
(***************************************************************************)
\* C13: every call that takes a connection from get_db_connection has
\* released it when it returns, whether it returns a bundle, a list, the
\* invalid-selection error or the message of a failure inside the block: no
\* connection is open between calls.
C13_NoConnectionStaysOpen == openConns = 0

\* a query failed inside the with-block, the call returned its message, and
\* the connection it had opened is closed
C13_Witness ==
    /\ Called("get_recommendations")
    /\ store.status = "corrupt"
    /\ connect(store)
    /\ result.kind = "error"
    /\ openConns = 0

ErrorMessages ==
    {"Invalid wheelchair or AAC device selection.",
     "Failed to retrieve recommendations due to a database error.",
     "An unexpected error occurred while getting recommendations."}

\* the failures of a get_recommendations call: the store cannot be opened or
\* queried, or the frame_clamps text of the wheelchair is NULL, empty or no
\* comma-separated list of integers
Fails(db, c) ==
    \/ db.status # "ok"
    \/ /\ ~Unresolved(db, c)
       /\ LET text == findWheelchair(db, c.wheelchair_id).frame_clamps
          IN \/ text = None
             \/ \E i \in DOMAIN text.fields :
                    text.fields[i] \notin {"1", "2", "3", " 2", " 3"}

\* C14: get_recommendations never raises: it returns a bundle or an error
\* message, which the caller tells apart by the kind of the value, and on
\* every failure it returns an error message and no bundle.
C14_FailuresComeBackAsErrorValues ==
    Called("get_recommendations") =>
        /\ result.kind \in {"bundle", "error"}
        /\ result.kind = "error" => result.message \in ErrorMessages
        /\ Fails(store, call) => result.kind = "error"

\* an empty frame_clamps text made int() fail and the call returned a message
C14_Witness ==
    /\ Called("get_recommendations")
    /\ store.status = "ok"
    /\ ~Unresolved(store, call)
    /\ findWheelchair(store, call.wheelchair_id).frame_clamps = [fields |-> <<"">>]
    /\ result = Error("An unexpected error occurred while getting recommendations.")

\* C15: when the frame-clamp id list of the wheelchair names an id that no
\* clamp record has, get_recommendations does not return a normal bundle
\* (whose clamp list would simply lack that id).
C15_UnresolvedClampIdIsNotSkipped ==
    (/\ Called("get_recommendations")
     /\ ~Fails(store, call)
     /\ ~Unresolved(store, call)
     /\ \E id \in Range(frame_clamp_ids(
                    findWheelchair(store, call.wheelchair_id).frame_clamps)) :
            \A c \in store.clamps : c.id # id)
        => result.kind # "bundle"

\* C17 as claimed: the adapter_ring of a returned bundle is a record, never
\* none.
C17_BundleCarriesAdapterRing ==
    ReturnedBundle => result.adapter_ring # None

\* C17 as amended: every returned bundle has an adapter_ring field; it is the
\* adaptors record of id 1 when the store holds one and none otherwise, and
\* with none no cross-manufacturer section is rendered.
C17_AdapterRingIsRecordOneOrNone ==
    ReturnedBundle =>
        /\ "adapter_ring" \in DOMAIN result
        /\ IF \E r \in store.adaptors : r.id = 1
           THEN result.adapter_ring \in store.adaptors /\ result.adapter_ring.id = 1
           ELSE result.adapter_ring = None
        /\ (Rendered /\ result.adapter_ring = None) => ~view.cross.shown

\* a bundle without adapter ring from a store whose only adaptor has id 2,
\* rendered for a wheelchair with a Daessy clamp and a Rehadapt mount
C17_Witness ==
    /\ ReturnedBundle
    /\ Rendered
    /\ store.adaptors = {[id |-> 2]}
    /\ result.adapter_ring = None
    /\ ClampsOf("daessy") # <<>>
    /\ \E i \in DOMAIN result.mounts : result.mounts[i].manufacturer = "Rehadapt"

\* what the engine function named by a call returns for its arguments on a
\* store
Returns(db, c) ==
    CASE c.op = "get_recommendations" ->
             get_recommendations(db, c.wheelchair_id, c.aac_device_id,
                                 c.uses_eyegaze, c.left_hand_side)
      [] c.op = "get_floorstands_for_device" ->
             get_floorstands_for_device(db, c.aac_device_id)
      [] c.op = "get_tablemounts_for_device" ->
             get_tablemounts_for_device(db, c.aac_device_id)
      [] c.op = "get_all_wheelchairs" -> get_all_wheelchairs(db)

\* C18: no step changes the store, so after any sequence of calls, failed or
\* not, it has its initial contents; and whatever calls came before, the value
\* a call returned is the value of its function for its arguments on the
\* store.
C18_ReadOnlyAndStateless ==
    /\ [](call # None => result = Returns(store, call))
    /\ [][store' = store]_vars

\* a right-hand call that failed on the wheelchair's frame_clamps text, on a
\* store that still holds its mounts
C18_Witness ==
    /\ Called("get_recommendations")
    /\ ~call.left_hand_side
    /\ result.kind = "error"
    /\ store.status = "ok"
    /\ store.mounts # {}
    /\ ~Unresolved(store, call)

(***************************************************************************)
(* Properties of the accessory finders (checked under SpecAccessories).    *)
(***************************************************************************)
NoRowTwice(rows) == Cardinality(SeqIds(rows)) = Len(rows)

\* C16: for a device id that resolves, get_floorstands_for_device and
\* get_tablemounts_for_device return exactly the floorstands / table mounts
\* whose capacity is >= the device weight (equality included), whatever the
\* wheelchairs of the store; for a device id that does not resolve they
\* return the invalid-selection error value and no list.
C16_AccessoriesAreExactlyThoseThatCarry ==
    (/\ call # None
     /\ call.op \in {"get_floorstands_for_device", "get_tablemounts_for_device"})
        => LET device == findDevice(store, call.aac_device_id)
               carrying ==
                   IF call.op = "get_floorstands_for_device"
                   THEN {r \in store.floorstands : r.weight_capacity >= device.weight}
                   ELSE {r \in store.tablemounts : r.max_weight >= device.weight}
           IN IF device = None
              THEN result = Error("Invalid AAC device selection.")
              ELSE /\ result.kind = "list"
                   /\ Range(result.rows) = carrying
                   /\ NoRowTwice(result.rows)
                   /\ result = Returns([store EXCEPT !.wheelchairs = {}], call)

\* a floorstands call that lists a stand of exactly the device's weight and
\* leaves out a weaker one
C16_Witness ==
    /\ Called("get_floorstands_for_device")
    /\ result.kind = "list"
    /\ \E i \in DOMAIN result.rows :
           result.rows[i].weight_capacity
               = findDevice(store, call.aac_device_id).weight
    /\ \E r \in store.floorstands : r \notin Range(result.rows)

====
